---- MODULE Spec2Model ----
(***************************************************************************)
(* Model of server.py: the request handler get_spliceai_scores, the        *)
(* variant grammar VARIANT_RE and parse_variant.  Python strings are       *)
(* modelled as sequences of one-character strings, so that str.split,      *)
(* str.strip and the regular expression are computed character by          *)
(* character.                                                              *)
(***************************************************************************)
EXTENDS Integers, Sequences, FiniteSets, TLC

\* ------------------------------------------------------------------ bounds
\* largest number of comma-separated tokens in a request's variants string
MaxTokens == 3
\* largest length of the ref / alt allele text of the generated allele tokens
MaxAlleleLen == 2

\* ------------------------------------------------------- character classes
Whitespace == {" "}
Digits == {"0", "1", "2", "3", "4", "5", "6", "7", "8", "9"}
\* [0-9XYMTt]
ChromChars == Digits \cup {"X", "Y", "M", "T", "t"}
\* [: -]
Sep1 == {":", " ", "-"}
\* [: ->]
Sep2 == {":", " ", "-", ">"}
\* a plausible slip: the allele class also admits lowercase letters
AlleleCharsAnyCase == {"A", "C", "G", "T", "a", "c", "g", "t"}
\* [ACGT]
AlleleChars == {"A", "C", "G", "T"}

Min(a, b) == IF a <= b THEN a ELSE b

\* ------------------------------------------------------- string functions
RECURSIVE LStrip(_, _)
LStrip(s, chars) ==
    IF Len(s) > 0 /\ s[1] \in chars THEN LStrip(Tail(s), chars) ELSE s

RECURSIVE RStrip(_, _)
RStrip(s, chars) ==
    IF Len(s) > 0 /\ s[Len(s)] \in chars
    THEN RStrip(SubSeq(s, 1, Len(s) - 1), chars)
    ELSE s

\* str.strip(chars)
Strip(s, chars) == RStrip(LStrip(s, chars), chars)

\* variant.strip().strip("'").strip('"').strip(",")
StripToken(s) ==
    Strip(Strip(Strip(Strip(s, Whitespace), {"'"}), {"\""}), {","})

\* index of the first occurrence of sep in s at or after i, 0 when absent
RECURSIVE Find(_, _, _)
Find(s, sep, i) ==
    IF i > Len(s) THEN 0
    ELSE IF s[i] = sep THEN i
    ELSE Find(s, sep, i + 1)

\* str.split(sep)
RECURSIVE Split(_, _)
Split(s, sep) ==
    LET k == Find(s, sep, 1)
    IN  IF k = 0 THEN <<s>>
        ELSE <<SubSeq(s, 1, k - 1)>> \o Split(SubSeq(s, k + 1, Len(s)), sep)

\* sep.join(parts)
RECURSIVE Join(_, _)
Join(parts, sep) ==
    IF Len(parts) = 0 THEN <<>>
    ELSE IF Len(parts) = 1 THEN parts[1]
    ELSE parts[1] \o <<sep>> \o Join(Tail(parts), sep)

\* length of the run of characters of class cls that starts at s[i]
RECURSIVE Span(_, _, _)
Span(s, i, cls) ==
    IF i <= Len(s) /\ s[i] \in cls THEN 1 + Span(s, i + 1, cls) ELSE 0

DigitValue(c) ==
    CHOOSE n \in 0..9 :
        <<"0", "1", "2", "3", "4", "5", "6", "7", "8", "9">>[n + 1] = c

\* int(digits)
RECURSIVE ToInt(_)
ToInt(ds) ==
    IF Len(ds) = 0 THEN 0
    ELSE 10 * ToInt(SubSeq(ds, 1, Len(ds) - 1)) + DigitValue(ds[Len(ds)])

\* ------------------------------------------------------------- the grammar
\* VARIANT_RE.match(s): the pattern is anchored at the start of s only.
\* Neighbouring character classes of the pattern are disjoint, so the greedy
\* match is the only candidate and backtracking cannot find another one.
VARIANT_RE_match(s) ==
    LET p0 == IF Len(s) >= 3 /\ SubSeq(s, 1, 3) = <<"c", "h", "r">>
              THEN 4 ELSE 1
        n1 == Min(Span(s, p0, ChromChars), 2)
        p1 == p0 + n1
        n2 == Span(s, p1, Sep1)
        p2 == p1 + n2
        n3 == Min(Span(s, p2, Digits), 9)
        p3 == p2 + n3
        n4 == Span(s, p3, Sep1)
        p4 == p3 + n4
        n5 == Span(s, p4, AlleleChars)
        p5 == p4 + n5
        n6 == Span(s, p5, Sep2)
        p6 == p5 + n6
        n7 == Span(s, p6, AlleleChars)
        p7 == p6 + n7
    IN  IF n1 >= 1 /\ n2 >= 1 /\ n3 >= 1 /\ n4 >= 1
           /\ n5 >= 1 /\ n6 >= 1 /\ n7 >= 1
        THEN [matched |-> TRUE,
              chrom |-> SubSeq(s, p0, p1 - 1),
              pos |-> SubSeq(s, p2, p3 - 1),
              ref |-> SubSeq(s, p4, p5 - 1),
              alt |-> SubSeq(s, p6, p7 - 1)]
        ELSE [matched |-> FALSE]

\* parse_variant: raises ValueError or returns (chrom, int(pos), ref, alt)
parse_variant(variant_str) ==
    LET match == VARIANT_RE_match(variant_str)
    IN  IF ~match.matched
        THEN [raised |-> TRUE,
              message |-> <<"Unable to parse variant: ">> \o variant_str]
        ELSE [raised |-> FALSE,
              chrom |-> match.chrom,
              pos |-> ToInt(match.pos),
              ref |-> match.ref,
              alt |-> match.alt]

\* VariantRecord.__init__
VariantRecord(chrom, pos, ref, alt) ==
    [chrom |-> chrom, pos |-> pos, ref |-> ref, alts |-> <<alt>>]

NoRecord == [chrom |-> <<>>, pos |-> 0, ref |-> <<>>, alts |-> <<>>]

\* ------------------------------------------------------ program constants
\* "ALLELE|SYMBOL|DS_AG|DS_AL|DS_DG|DS_DL|DP_AG|DP_AL|DP_DG|DP_DL".split("|")
SPLICE_AI_SCORE_FIELDS ==
    <<"ALLELE", "SYMBOL", "DS_AG", "DS_AL", "DS_DG", "DS_DL",
      "DP_AG", "DP_AL", "DP_DG", "DP_DL">>

DISTANCE == 50
MASK == 0

\* the keys of ANNOTATOR
ANNOTATOR == [g \in {<<"3", "7">>, <<"3", "8">>} |->
                 IF g = <<"3", "7">> THEN "grch37" ELSE "grch38"]

\* ------------------------------------------------ request parameter values
\* A parameter value is None, a str or a list (a JSON body may hold a list).
None == [type |-> "none", val |-> <<>>]
Str(chars) == [type |-> "str", val |-> chars]
List(items) == [type |-> "list", val |-> items]

\* the slip of testing nothing: every value counts as present
NeverFalsy(v) == FALSE
\* Python truthiness: `not v` for None, "" and []
Falsy(v) == v.type = "none" \/ Len(v.val) = 0

\* isinstance(variants, str)
IsStr(v) == v.type = "str"

\* genome_version in ("37", "38")
ValidHg(v) == v.type = "str" /\ v.val \in {<<"3", "7">>, <<"3", "8">>}

\* the slip of never skipping a token
NeverBlank(variant) == FALSE
\* `not variant` on the stripped token
IsBlank(variant) == Len(variant) = 0

\* --------------------------------------------------------- input universes
T_plain == <<"1", ":", "1", ":", "A", ">", "G">>
T_quoted == <<"'", "c", "h", "r", "X", " ", "9", " ", "C", " ", "T", "'">>
T_empty == <<>>
T_space == <<" ">>
T_quotedSpace == <<"'", " ", "'">>
T_garbage == <<"1", ":", "x", ":", "A", ">", "G">>

\* tokens a caller may put between the commas of the variants string
TokenSet == {T_plain, T_quoted, T_empty, T_space, T_quotedSpace, T_garbage}

\* letters a caller may write in an allele
AlleleLetters == {"A", "G", "g"}
AlleleStrings == UNION {[1..n -> AlleleLetters] : n \in 1..MaxAlleleLen}
AllelePrefix == <<"1", ":", "1", ":">>
\* tokens "1:1:<ref>><alt>" over every ref and alt text
AlleleTokens ==
    {AllelePrefix \o r \o <<">">> \o a : r \in AlleleStrings, a \in AlleleStrings}

TokenLists == UNION {[1..n -> TokenSet] : n \in 1..MaxTokens}

HgValues == {None, Str(<<>>), Str(<<"3", "7">>), Str(<<"3", "8">>),
             Str(<<"3", "9">>)}

VariantsValues ==
    {None, List(<<>>), List(<<T_plain>>)}
        \cup {Str(Join(ts, ",")) : ts \in TokenLists}
        \cup {Str(t) : t \in AlleleTokens}

\* what one call of get_delta_scores can do: raise, or return score strings
GoodScore == <<"G", "|", "S", "|", "5", "|", "1", "|", "0", "|", "0",
               "|", "2", "|", "3", "|", "0", "|", "0">>
ShortScore == <<"G", "|", "S", "|", "5">>
LongScore == GoodScore \o <<"|", "x">>

ExceptionClasses == {"KeyError"}

CollaboratorOutcomes ==
    {[kind |-> "raise", cls |-> c, msg |-> "no annotation", scores |-> <<>>] :
        c \in ExceptionClasses}
        \cup {[kind |-> "return", cls |-> "", msg |-> "", scores |-> ss] :
                ss \in {<<>>, <<GoodScore>>, <<ShortScore>>, <<LongScore>>}}

\* ------------------------------------------------------- response elements
EXAMPLE == "For example: /?hg=38&variants='chr8:140300615 C>G'"

ParseErrorElement(variant, message) ==
    [variant |-> variant, error |-> message]

\* f"{type(e)}: {e}"
ExceptionElement(variant, outcome) ==
    [variant |-> variant, error |-> <<outcome.cls, ": ", outcome.msg>>]

EmptyElement(variant) ==
    [variant |-> variant,
     error |-> <<"unable to compute scores for ">> \o variant]

\* dict(zip(SPLICE_AI_SCORE_FIELDS, score.split("|"))): zip stops at the
\* shorter of the two sequences
ZipFields(score) ==
    LET parts == Split(score, "|")
        n == Min(Len(SPLICE_AI_SCORE_FIELDS), Len(parts))
    IN  [name \in {SPLICE_AI_SCORE_FIELDS[j] : j \in 1..n} |->
            parts[CHOOSE j \in 1..n : SPLICE_AI_SCORE_FIELDS[j] = name]]

ParsedScores(scores) == [k \in 1..Len(scores) |-> ZipFields(scores[k])]

SuccessElement(variant, scores) ==
    [variant |-> variant, scores |-> ParsedScores(scores)]

\* the slip of an except clause that drops the failed token
DropError(results, element) == results
\* results.append({"variant": variant, "error": ...})
AppendError(results, element) == Append(results, element)

\* the slip of the narrower `except ValueError` around the collaborator call
CaughtValueErrorOnly(outcome) == outcome.cls = "ValueError"
\* `except Exception` around the collaborator call
Caught(outcome) == outcome.cls \in ExceptionClasses

\* the slip of a guard that never fires
NeverEmpty(scores) == FALSE
\* len(scores) == 0
IsEmpty(scores) == Len(scores) = 0

\* the slip of a missing `continue` after a parse error
FallThrough(branch) == IF branch = "parse_error" THEN "score" ELSE "loop"
\* the slip of calling the collaborator again after an empty result
RetryOnEmpty(branch) == IF branch = "empty" THEN "score" ELSE "loop"
\* where control goes after each branch of the loop body: `continue`, or the
\* end of the body, both lead to the loop header
PcAfter(branch) == "loop"

\* -------------------------------------------------------------------- state
VARIABLES
    params,      \* the request's parameters: [hg, variants]
    pc,          \* position of the handler: "check", "loop", "parse", "score", "done"
    variants,    \* the list of tokens after variants.split(",")
    i,           \* index of the token the for loop is at (0 before the first)
    variant,     \* the stripped token of this iteration
    record,      \* the VariantRecord of this iteration
    results,     \* the list of response elements
    response,    \* the handler's return value
    parseCalls,  \* per token: number of parse_variant calls
    scoreCalls,  \* per token: number of get_delta_scores calls
    outcomes,    \* per token: what its last get_delta_scores call did
    tokState     \* per token: its processing state

vars == <<params, pc, variants, i, variant, record, results, response,
          parseCalls, scoreCalls, outcomes, tokState>>

NoOutcome == [kind |-> "none", cls |-> "", msg |-> "", scores |-> <<>>]

NoResponse == [status |-> 0, body |-> <<>>]

Init ==
    /\ params \in [hg : HgValues, variants : VariantsValues]
    /\ pc = "check"
    /\ variants = <<>>
    /\ i = 0
    /\ variant = <<>>
    /\ record = NoRecord
    /\ results = <<>>
    /\ response = NoResponse
    /\ parseCalls = <<>>
    /\ scoreCalls = <<>>
    /\ outcomes = <<>>
    /\ tokState = <<>>

\* return <message>, 400
Return400(message) ==
    /\ response' = [status |-> 400, body |-> message]
    /\ pc' = "done"
    /\ UNCHANGED <<params, variants, i, variant, record, results,
                   parseCalls, scoreCalls, outcomes, tokState>>

\* lines 64-81: the parameter checks, the split and `results = []`
CheckParams ==
    /\ pc = "check"
    /\ IF Falsy(params.hg)
       THEN Return400(<<"\"hg\" not specified.", EXAMPLE>>)
       ELSE IF ~ValidHg(params.hg)
       THEN Return400(<<"Invalid \"hg\" value", EXAMPLE>>)
       ELSE IF Falsy(params.variants)
       THEN Return400(<<"\"variants\" not specified.", EXAMPLE>>)
       ELSE IF ~IsStr(params.variants)
       THEN Return400(<<"\"variants\" value must be a string">>)
       ELSE LET tokens == Split(params.variants.val, ",")
            IN  /\ variants' = tokens
                /\ results' = <<>>
                /\ parseCalls' = [j \in 1..Len(tokens) |-> 0]
                /\ scoreCalls' = [j \in 1..Len(tokens) |-> 0]
                /\ outcomes' = [j \in 1..Len(tokens) |-> NoOutcome]
                /\ tokState' = [j \in 1..Len(tokens) |-> "Received"]
                /\ pc' = "loop"
                /\ UNCHANGED <<params, i, variant, record, response>>

\* lines 82-85: the loop header takes the next token, strips it and skips it
\* when nothing is left
NextToken ==
    /\ pc = "loop"
    /\ i < Len(variants)
    /\ i' = i + 1
    /\ variant' = StripToken(variants[i + 1])
    /\ IF IsBlank(variant')
       THEN /\ pc' = "loop"
            /\ tokState' = [tokState EXCEPT ![i + 1] = "Skipped"]
       ELSE /\ pc' = "parse"
            /\ UNCHANGED tokState
    /\ UNCHANGED <<params, variants, record, results, response,
                   parseCalls, scoreCalls, outcomes>>

\* lines 87-93: parse_variant, the ValueError handler, the VariantRecord
Parse ==
    /\ pc = "parse"
    /\ parseCalls' = [parseCalls EXCEPT ![i] = @ + 1]
    /\ LET parsed == parse_variant(variant)
       IN  IF parsed.raised
           THEN /\ results' = AppendError(results,
                                  ParseErrorElement(variant, parsed.message))
                /\ tokState' = [tokState EXCEPT ![i] = "ParseFailed"]
                /\ pc' = PcAfter("parse_error")
                /\ UNCHANGED record
           ELSE /\ record' = VariantRecord(parsed.chrom, parsed.pos,
                                           parsed.ref, parsed.alt)
                /\ tokState' = [tokState EXCEPT ![i] = "Parsed"]
                /\ pc' = "score"
                /\ UNCHANGED results
    /\ UNCHANGED <<params, variants, i, variant, response, scoreCalls,
                   outcomes>>

\* lines 94-107: the collaborator call and the three ways its outcome is
\* recorded; an exception the handler does not catch ends the request
Score ==
    /\ pc = "score"
    /\ scoreCalls' = [scoreCalls EXCEPT ![i] = @ + 1]
    /\ \E outcome \in CollaboratorOutcomes :
        /\ outcomes' = [outcomes EXCEPT ![i] = outcome]
        /\ IF outcome.kind = "raise"
             THEN IF Caught(outcome)
                  THEN /\ results' = AppendError(results,
                                         ExceptionElement(variant, outcome))
                       /\ tokState' = [tokState EXCEPT ![i] = "ScoreFailed"]
                       /\ pc' = PcAfter("exception")
                       /\ UNCHANGED response
                  ELSE /\ response' = [status |-> 500, body |-> <<>>]
                       /\ pc' = "done"
                       /\ UNCHANGED <<results, tokState>>
             ELSE IF IsEmpty(outcome.scores)
                  THEN /\ results' = AppendError(results, EmptyElement(variant))
                       /\ tokState' = [tokState EXCEPT ![i] = "ScoreFailed"]
                       /\ pc' = PcAfter("empty")
                       /\ UNCHANGED response
                  ELSE /\ results' = Append(results,
                                         SuccessElement(variant, outcome.scores))
                       /\ tokState' = [tokState EXCEPT ![i] = "Scored"]
                       /\ pc' = PcAfter("success")
                       /\ UNCHANGED response
    /\ UNCHANGED <<params, variants, i, variant, record, parseCalls>>

\* line 109: Response(json.dumps(results), mimetype='application/json')
Respond ==
    /\ pc = "loop"
    /\ i = Len(variants)
    /\ response' = [status |-> 200, body |-> results]
    /\ pc' = "done"
    /\ UNCHANGED <<params, variants, i, variant, record, results,
                   parseCalls, scoreCalls, outcomes, tokState>>

Next == CheckParams \/ NextToken \/ Parse \/ Score \/ Respond

Spec == Init /\ [][Next]_vars

TypeOK ==
    /\ pc \in {"check", "loop", "parse", "score", "done"}
    /\ i \in 0..Len(variants)
    /\ response.status \in {0, 200, 400, 500}

\* ================================================================== claims
\* vocabulary of the claims, stated on the request and the handler's state

\* the request passes validation: hg is "37" or "38", variants is a
\* non-empty string
ValidRequest ==
    /\ params.hg \in {Str(<<"3", "7">>), Str(<<"3", "8">>)}
    /\ params.variants.type = "str"
    /\ params.variants.val # <<>>

\* the comma-separated tokens of the request's variants string
RequestTokens == Split(params.variants.val, ",")

AllWhitespace(s) == \A k \in 1..Len(s) : s[k] \in Whitespace

\* the token is neither empty nor whitespace-only once it is trimmed
NonBlankToken(tok) == ~AllWhitespace(StripToken(tok))

\* the token leaves something once it is trimmed
KeptToken(tok) == StripToken(tok) # <<>>

\* position, in the response, of the element of token j
Slot(j) == Cardinality({k \in 1..j : KeptToken(variants[k])})

\* the loop body has finished with token j
Finished(j) == j < i \/ (j = i /\ pc \in {"loop", "done"})

IsErrorElement(e) == "error" \in DOMAIN e /\ ~("scores" \in DOMAIN e)
IsSuccessElement(e) == "scores" \in DOMAIN e

Ended200 == pc = "done" /\ response.status = 200

FieldCount(score) == Len(Split(score, "|"))

\* ---------------------------------------------------------------------- C1
\* C1: for a request that passes validation the returned array has exactly
\* one element per token that is neither empty nor whitespace-only after
\* trimming, in order, the i-th element's "variant" being the i-th such
\* token; blank tokens produce no element.
C1_OneElementPerNonBlankToken ==
    (ValidRequest /\ pc = "done") =>
        LET kept == SelectSeq(RequestTokens, NonBlankToken)
        IN  /\ response.status = 200
            /\ Len(response.body) = Len(kept)
            /\ \A k \in 1..Len(kept) :
                   response.body[k].variant = StripToken(kept[k])

\* ---------------------------------------------------------------------- C2
C2_Inv ==
    ValidRequest =>
        /\ pc = "done" => response.status = 200
        /\ \A j \in 1..Len(variants) :
              LET t == StripToken(variants[j])
              IN  (KeptToken(variants[j]) /\ ~VARIANT_RE_match(t).matched) =>
                      /\ scoreCalls[j] = 0
                      /\ Finished(j) =>
                            /\ Slot(j) \in 1..Len(results)
                            /\ IsErrorElement(results[Slot(j)])
                            /\ results[Slot(j)].variant = t
                            /\ Slot(j) = Slot(j - 1) + 1
        /\ Ended200 => response.body = results

C2_Step ==
    /\ Len(results') >= Len(results)
    /\ \A k \in 1..Len(results) : results'[k] = results[k]

\* C2: a token that reaches the parser and does not match VARIANT_RE gets
\* exactly one error element at its own position, the request still ends
\* with a 200, the elements of the other tokens are never removed or
\* changed, and the collaborator is not called for the token.
C2_ParseFailureKeepsSlot == [](C2_Inv) /\ [][C2_Step]_vars

C2_Witness ==
    /\ Ended200
    /\ variants = <<T_plain, T_garbage, T_quoted>>
    /\ Len(response.body) = 3
    /\ IsSuccessElement(response.body[1])
    /\ IsErrorElement(response.body[2])
    /\ IsSuccessElement(response.body[3])

\* ---------------------------------------------------------------------- C3
\* C3: when the collaborator raises for a parsed token, the token's slot
\* holds an error element and no success element, every later token is
\* still parsed and scored, and the request ends with a 200 JSON array.
C3_ExceptionIsIsolated ==
    \A j \in 1..Len(variants) :
        outcomes[j].kind = "raise" =>
            /\ tokState[j] \in {"ScoreFailed"}
            /\ Slot(j) \in 1..Len(results)
            /\ IsErrorElement(results[Slot(j)])
            /\ results[Slot(j)].variant = StripToken(variants[j])
            /\ Slot(j) = Slot(j - 1) + 1
            /\ pc = "done" =>
                  /\ response.status = 200
                  /\ response.body = results
                  /\ Len(results) = Slot(Len(variants))
                  /\ \A k \in (j + 1)..Len(variants) :
                        KeptToken(variants[k]) =>
                            /\ parseCalls[k] = 1
                            /\ ~parse_variant(StripToken(variants[k])).raised
                                   => scoreCalls[k] = 1

C3_Witness ==
    /\ Ended200
    /\ variants = <<T_plain, T_quoted>>
    /\ outcomes[1].kind = "raise"
    /\ outcomes[2].kind = "return"
    /\ IsErrorElement(response.body[1])
    /\ IsSuccessElement(response.body[2])

\* ---------------------------------------------------------------------- C4
\* C4: when the collaborator returns an empty sequence for a parsed token
\* the token's element is an error element, and every element with a
\* "scores" key, in the results and in the response, has a non-empty list.
C4_EmptyResultIsAnError ==
    /\ \A j \in 1..Len(variants) :
          (outcomes[j].kind = "return" /\ outcomes[j].scores = <<>>) =>
              /\ Slot(j) \in 1..Len(results)
              /\ IsErrorElement(results[Slot(j)])
              /\ results[Slot(j)].variant = StripToken(variants[j])
    /\ \A k \in 1..Len(results) :
          IsSuccessElement(results[k]) => Len(results[k].scores) > 0
    /\ Ended200 =>
          \A k \in 1..Len(response.body) :
              IsSuccessElement(response.body[k])
                  => Len(response.body[k].scores) > 0

C4_Witness ==
    /\ Ended200
    /\ variants = <<T_plain, T_plain>>
    /\ outcomes[1].kind = "return" /\ outcomes[1].scores = <<>>
    /\ outcomes[2].scores = <<GoodScore>>
    /\ IsErrorElement(response.body[1])
    /\ IsSuccessElement(response.body[2])

\* ---------------------------------------------------------------------- C5
RECURSIVE Total(_)
Total(f) == IF Len(f) = 0 THEN 0 ELSE f[1] + Total(Tail(f))

\* hg missing or not "37"/"38", variants missing, empty or not a string
InvalidRequest ==
    \/ params.hg.type = "none"
    \/ params.hg \notin {Str(<<"3", "7">>), Str(<<"3", "8">>)}
    \/ params.variants.type = "none"
    \/ params.variants.val = <<>>
    \/ params.variants.type # "str"

NothingProcessed ==
    /\ Total(parseCalls) = 0
    /\ Total(scoreCalls) = 0
    /\ variants = <<>>
    /\ variant = <<>>
    /\ i = 0
    /\ results = <<>>

\* C5: a request-level validation error ends the request with a 400 before
\* any token is trimmed, parsed or scored: an invalid request never leaves
\* the parameter checks except to return 400, and a run that ended in a 400
\* made no parse_variant and no get_delta_scores call and built no results.
C5_ValidationErrorBeforeTokens ==
    /\ InvalidRequest =>
          /\ NothingProcessed
          /\ pc \in {"check", "done"}
          /\ pc = "done" => response.status = 400
    /\ response.status = 400 => (InvalidRequest /\ NothingProcessed)

C5_Witness ==
    /\ pc = "done"
    /\ response.status = 400
    /\ params.hg = Str(<<"3", "9">>)
    /\ params.variants = Str(Join(<<T_plain, T_garbage>>, ","))

\* ---------------------------------------------------------------------- C6
\* C6: when the collaborator returns a score string whose number of fields
\* is not the 10 of SPLICE_AI_SCORE_FIELDS the token's element is an error
\* element, and no success element holds a score map without all 10 keys.
C6_FieldCountMismatchIsAnError ==
    /\ \A j \in 1..Len(variants) :
          (\E k \in 1..Len(outcomes[j].scores) :
               FieldCount(outcomes[j].scores[k]) # 10) =>
              /\ Slot(j) \in 1..Len(results)
              /\ IsErrorElement(results[Slot(j)])
    /\ \A k \in 1..Len(results) :
          IsSuccessElement(results[k]) =>
              \A n \in 1..Len(results[k].scores) :
                  Cardinality(DOMAIN results[k].scores[n]) = 10

\* ---------------------------------------------------------------------- C7
ParsesOk(tok) ==
    KeptToken(tok) /\ VARIANT_RE_match(StripToken(tok)).matched

\* C7: get_delta_scores is called at most once per token, only for a token
\* that parsed, and by the end of the request exactly once for each token
\* that parses and never for a blank or unparseable one.
C7_OneCollaboratorCallPerParsedToken ==
    /\ \A j \in 1..Len(variants) :
          /\ scoreCalls[j] <= 1
          /\ scoreCalls[j] = 1 => ParsesOk(variants[j])
          /\ Finished(j) =>
                scoreCalls[j] = IF ParsesOk(variants[j]) THEN 1 ELSE 0
    /\ pc = "done" /\ ValidRequest =>
          Total(scoreCalls)
              = Cardinality({j \in 1..Len(variants) : ParsesOk(variants[j])})

C7_Witness ==
    /\ Ended200
    /\ variants = <<T_plain, T_space, T_garbage>>
    /\ outcomes[1].kind = "return" /\ outcomes[1].scores = <<>>
    /\ scoreCalls = <<1, 0, 0>>

\* ---------------------------------------------------------------------- C8
LowercaseAlleleLetters == {"a", "c", "g", "t"}

\* a token written as <chrom>:<pos>:<ref>><alt>, whatever the case of the
\* letters of ref and alt
IsAlleleToken(tok) == tok \in AlleleTokens
RefText(tok) == SubSeq(tok, Len(AllelePrefix) + 1, Find(tok, ">", 1) - 1)
AltText(tok) == SubSeq(tok, Find(tok, ">", 1) + 1, Len(tok))

HasLowercase(s) == \E k \in 1..Len(s) : s[k] \in LowercaseAlleleLetters

UppercasePrefix(s) == SubSeq(s, 1, Span(s, 1, {"A", "C", "G", "T"}))

ParseFailureRecorded(j) ==
    /\ scoreCalls[j] = 0
    /\ tokState[j] \in {"Received", "ParseFailed"}
    /\ Finished(j) =>
          /\ tokState[j] = "ParseFailed"
          /\ IsErrorElement(results[Slot(j)])
          /\ results[Slot(j)].error
                 = <<"Unable to parse variant: ">> \o StripToken(variants[j])

\* C8 as stated: every token with a lowercase allele letter in its ref or
\* alt text fails to parse, gets a parse-failure element and never reaches
\* the collaborator.
C8_LowercaseAlleleNeverParses ==
    \A j \in 1..Len(variants) :
        (/\ IsAlleleToken(variants[j])
         /\ (HasLowercase(RefText(variants[j]))
                \/ HasLowercase(AltText(variants[j]))))
            => ParseFailureRecorded(j)

\* C8: a token with a lowercase letter in its ref text, or at the start of
\* its alt text, fails to parse, gets a parse-failure element and never
\* reaches the collaborator; a token with an uppercase ref text whose alt
\* text starts in uppercase and continues in lowercase parses, its alt cut
\* to the leading uppercase letters, and is passed to the collaborator.
C8_LowercaseAlleleAmended ==
    \A j \in 1..Len(variants) :
        IsAlleleToken(variants[j]) =>
            LET ref == RefText(variants[j])
                alt == AltText(variants[j])
            IN  IF HasLowercase(ref) \/ alt[1] \in LowercaseAlleleLetters
                THEN ParseFailureRecorded(j)
                ELSE /\ tokState[j] # "ParseFailed"
                     /\ (j = i /\ pc = "score") =>
                            /\ record.ref = ref
                            /\ record.alts = <<UppercasePrefix(alt)>>
                     /\ Finished(j) =>
                            /\ scoreCalls[j] = 1
                            /\ results[Slot(j)].variant = variants[j]

C8_Witness ==
    /\ Ended200
    /\ variants = <<AllelePrefix \o <<"A", "g", ">", "G">> >>
    /\ parseCalls = <<1>>
    /\ scoreCalls = <<0>>
    /\ IsErrorElement(response.body[1])

Terminal == {"ParseFailed", "ScoreFailed", "Scored"}

Transitions ==
    {<<"Received", "Parsed">>, <<"Received", "ParseFailed">>,
     <<"Parsed", "Scored">>, <<"Parsed", "ScoreFailed">>}

\* what one step may do to the tokens: token j only moves along the state
\* machine, a token in a terminal state is not parsed or scored again, and
\* the results grow by exactly one element exactly when a token reaches a
\* terminal state
C10_Step ==
    LET moved == {j \in DOMAIN tokState : tokState'[j] # tokState[j]}
    IN  DOMAIN tokState' = DOMAIN tokState =>
            /\ Cardinality(moved) <= 1
            /\ \A j \in moved :
                  \/ KeptToken(variants[j])
                        /\ <<tokState[j], tokState'[j]>> \in Transitions
                  \/ ~KeptToken(variants[j])
                        /\ <<tokState[j], tokState'[j]>>
                               = <<"Received", "Skipped">>
            /\ \A j \in DOMAIN tokState :
                  tokState[j] \in Terminal =>
                      /\ parseCalls'[j] = parseCalls[j]
                      /\ scoreCalls'[j] = scoreCalls[j]
            /\ IF \E j \in moved : tokState'[j] \in Terminal
               THEN Len(results') = Len(results) + 1
               ELSE results' = results

\* token j is in a terminal state (or was skipped as blank) before token
\* j + 1 leaves Received, and every recorded outcome belongs to one token
C10_Order ==
    /\ \A j \in 1..(Len(tokState) - 1) :
          tokState[j + 1] # "Received"
              => tokState[j] \in Terminal \cup {"Skipped"}
    /\ Len(results)
           = Cardinality({j \in DOMAIN tokState : tokState[j] \in Terminal})
    /\ \A j \in DOMAIN tokState :
          /\ tokState[j] = "Skipped" <=> (Finished(j) /\ ~KeptToken(variants[j]))
          /\ pc = "done" => tokState[j] \in Terminal \cup {"Skipped"}

\* C10: each non-blank token follows Received -> (Parsed | ParseFailed),
\* Parsed -> (Scored | ScoreFailed); the three end states are terminal, no
\* token moves back or is processed again, exactly one outcome is recorded
\* when a token reaches its terminal state, and token i is terminal before
\* token i+1 leaves Received.
C10_TokenStateMachine == [](C10_Order) /\ [][C10_Step]_vars

C10_Witness ==
    /\ Ended200
    /\ tokState = <<"Scored", "ParseFailed", "ScoreFailed">>
    /\ Len(response.body) = 3

====
